---- MODULE Spec2Model ----
(***************************************************************************)
(* A model of StoreProvider (src/store-provider.js): a key-value facade    *)
(* over an in-memory Map or one of the two browser Web Storage objects,    *)
(* with a construction-time probe and fallback to memory, prefix-derived   *)
(* storage keys and JSON-encoded values.                                   *)
(*                                                                         *)
(* JavaScript strings are sequences of one-character strings, so that      *)
(* trim, concatenation, JSON.stringify and JSON.parse are computed and not *)
(* assumed.  JavaScript values are tagged records:                         *)
(*   [t |-> "null"], [t |-> "bool", b |-> ..], [t |-> "num", n |-> ..],    *)
(*   [t |-> "str", s |-> ..], [t |-> "arr", a |-> <<..>>],                 *)
(*   [t |-> "obj", o |-> (key :> value @@ ..)]                             *)
(* Numbers are the integers; an object is the map from its own keys to     *)
(* their values (deep equality does not look at key order).                *)
(***************************************************************************)
EXTENDS Integers, Sequences, FiniteSets, TLC

(***************************************************************************)
(* Bounds of the model.                                                    *)
(***************************************************************************)
\* longest string the value universe holds
MaxStrLen == 2
\* most elements of an array, and most keys of an object, in the value universe
MaxKids == 2

(***************************************************************************)
(* JavaScript values.                                                      *)
(***************************************************************************)
Null == [t |-> "null"]
Bool(b) == [t |-> "bool", b |-> b]
Num(n) == [t |-> "num", n |-> n]
Str(s) == [t |-> "str", s |-> s]
Arr(a) == [t |-> "arr", a |-> a]
Obj(o) == [t |-> "obj", o |-> o]

\* the characters String.prototype.trim removes (the two the model holds)
IsWhite(c) == c \in {" ", "\n"}

DigitChars == <<"0", "1", "2", "3", "4", "5", "6", "7", "8", "9">>

IsDigit(c) == \E d \in 1..10 : DigitChars[d] = c

DigitVal(c) == (CHOOSE d \in 1..10 : DigitChars[d] = c) - 1

RECURSIVE NatToStr(_)
NatToStr(n) ==
    IF n < 10 THEN <<DigitChars[n + 1]>>
    ELSE NatToStr(n \div 10) \o <<DigitChars[(n % 10) + 1]>>

\* Number::toString of an integer
NumToStr(n) == IF n < 0 THEN <<"-">> \o NatToStr(0 - n) ELSE NatToStr(n)

\* QuoteJSONString's escape of one code unit
EscapeChar(c) ==
    CASE c = "\"" -> <<"\\", "\"">>
      [] c = "\\" -> <<"\\", "\\">>
      [] c = "\n" -> <<"\\", "n">>
      [] c = "\t" -> <<"\\", "t">>
      [] OTHER -> <<c>>

RECURSIVE EscapeChars(_)
EscapeChars(s) ==
    IF s = <<>> THEN <<>> ELSE EscapeChar(Head(s)) \o EscapeChars(Tail(s))

QuoteStr(s) == <<"\"">> \o EscapeChars(s) \o <<"\"">>

\* the keys of an object in the order JSON.stringify visits them (one fixed
\* enumeration: the model's objects do not record insertion order)
RECURSIVE KeyOrder(_)
KeyOrder(S) ==
    IF S = {} THEN <<>>
    ELSE LET k == CHOOSE k \in S : TRUE IN <<k>> \o KeyOrder(S \ {k})

RECURSIVE Stringify(_)
RECURSIVE JoinValues(_)
RECURSIVE JoinMembers(_, _)
\* the elements of an array, comma separated
JoinValues(a) ==
    IF a = <<>> THEN <<>>
    ELSE Stringify(Head(a)) \o (IF Len(a) = 1 THEN <<>> ELSE <<",">> \o JoinValues(Tail(a)))

\* the members of object o whose keys are listed in ks, comma separated
JoinMembers(o, ks) ==
    IF ks = <<>> THEN <<>>
    ELSE QuoteStr(Head(ks)) \o <<":">> \o Stringify(o[Head(ks)])
         \o (IF Len(ks) = 1 THEN <<>> ELSE <<",">> \o JoinMembers(o, Tail(ks)))

\* JSON.stringify(value) for a JSON value
Stringify(v) ==
    CASE v.t = "null" -> <<"n", "u", "l", "l">>
      [] v.t = "bool" -> IF v.b THEN <<"t", "r", "u", "e">> ELSE <<"f", "a", "l", "s", "e">>
      [] v.t = "num" -> NumToStr(v.n)
      [] v.t = "str" -> QuoteStr(v.s)
      [] v.t = "arr" -> <<"[">> \o JoinValues(v.a) \o <<"]">>
      [] v.t = "obj" -> <<"{">> \o JoinMembers(v.o, KeyOrder(DOMAIN v.o)) \o <<"}">>

(***************************************************************************)
(* JSON.parse: a recursive descent over the text.  Every parser returns    *)
(* [ok, v, i]: whether it matched, what it read, and the index after it.   *)
(***************************************************************************)
Fail == [ok |-> FALSE, v |-> Null, i |-> 0]
Got(v, i) == [ok |-> TRUE, v |-> v, i |-> i]

At(s, i) == IF i >= 1 /\ i <= Len(s) THEN s[i] ELSE "<eof>"

RECURSIVE SkipWs(_, _)
SkipWs(s, i) == IF IsWhite(At(s, i)) \/ At(s, i) = "\t" THEN SkipWs(s, i + 1) ELSE i

\* s[i..] starts with the literal lit
StartsWith(s, i, lit) ==
    /\ i + Len(lit) - 1 <= Len(s)
    /\ \A j \in 1..Len(lit) : s[i + j - 1] = lit[j]

\* the characters of a string token, from i (after the opening quote) up to
\* the closing quote; acc is what has been read
RECURSIVE ParseChars(_, _, _)
ParseChars(s, i, acc) ==
    LET c == At(s, i) IN
    CASE c = "<eof>" -> Fail
      [] c = "\"" -> Got(Str(acc), i + 1)
      [] c = "\\" ->
            LET e == At(s, i + 1) IN
            CASE e = "\"" -> ParseChars(s, i + 2, Append(acc, "\""))
              [] e = "\\" -> ParseChars(s, i + 2, Append(acc, "\\"))
              [] e = "/" -> ParseChars(s, i + 2, Append(acc, "/"))
              [] e = "n" -> ParseChars(s, i + 2, Append(acc, "\n"))
              [] e = "t" -> ParseChars(s, i + 2, Append(acc, "\t"))
              [] OTHER -> Fail
      [] c \in {"\n", "\t"} -> Fail
      [] OTHER -> ParseChars(s, i + 1, Append(acc, c))

\* the digits of an integer from i on; n is the value read so far
RECURSIVE ParseDigits(_, _, _)
ParseDigits(s, i, n) ==
    IF IsDigit(At(s, i)) THEN ParseDigits(s, i + 1, 10 * n + DigitVal(s[i]))
    ELSE Got(Num(n), i)

\* a JSON number without fraction or exponent: -?(0|[1-9][0-9]*)
ParseNumber(s, i) ==
    LET neg == At(s, i) = "-"
        j == IF neg THEN i + 1 ELSE i
        r == CASE At(s, j) = "0" -> Got(Num(0), j + 1)
               [] IsDigit(At(s, j)) -> ParseDigits(s, j, 0)
               [] OTHER -> Fail
    IN  IF r.ok /\ neg THEN Got(Num(0 - r.v.n), r.i) ELSE r

RECURSIVE ParseValue(_, _)
RECURSIVE ParseElems(_, _, _)
RECURSIVE ParseMembers(_, _, _)
\* the elements of an array from i on (after "[" or ","); acc is what has been read
ParseElems(s, i, acc) ==
    LET r == ParseValue(s, i) IN
    IF ~r.ok THEN Fail
    ELSE LET j == SkipWs(s, r.i) IN
         CASE At(s, j) = "," -> ParseElems(s, j + 1, Append(acc, r.v))
           [] At(s, j) = "]" -> Got(Arr(Append(acc, r.v)), j + 1)
           [] OTHER -> Fail

\* the members of an object from i on (after "{" or ","); acc is the map read so
\* far; a repeated key keeps its last value
ParseMembers(s, i, acc) ==
    LET j == SkipWs(s, i) IN
    IF At(s, j) # "\"" THEN Fail
    ELSE LET k == ParseChars(s, j + 1, <<>>) IN
         IF ~k.ok THEN Fail
         ELSE LET c == SkipWs(s, k.i) IN
              IF At(s, c) # ":" THEN Fail
              ELSE LET r == ParseValue(s, c + 1) IN
                   IF ~r.ok THEN Fail
                   ELSE LET e == SkipWs(s, r.i)
                            m == [x \in (DOMAIN acc) \cup {k.v.s} |->
                                    IF x = k.v.s THEN r.v ELSE acc[x]]
                        IN  CASE At(s, e) = "," -> ParseMembers(s, e + 1, m)
                              [] At(s, e) = "}" -> Got(Obj(m), e + 1)
                              [] OTHER -> Fail

\* one JSON value from i on, leading white space skipped
ParseValue(s, i) ==
    LET j == SkipWs(s, i)
        c == At(s, j)
    IN  CASE c = "n" -> IF StartsWith(s, j, <<"n", "u", "l", "l">>) THEN Got(Null, j + 4) ELSE Fail
          [] c = "t" -> IF StartsWith(s, j, <<"t", "r", "u", "e">>) THEN Got(Bool(TRUE), j + 4) ELSE Fail
          [] c = "f" -> IF StartsWith(s, j, <<"f", "a", "l", "s", "e">>) THEN Got(Bool(FALSE), j + 5) ELSE Fail
          [] c = "\"" -> ParseChars(s, j + 1, <<>>)
          [] c = "-" \/ IsDigit(c) -> ParseNumber(s, j)
          [] c = "[" ->
                LET e == SkipWs(s, j + 1) IN
                IF At(s, e) = "]" THEN Got(Arr(<<>>), e + 1) ELSE ParseElems(s, j + 1, <<>>)
          [] c = "{" ->
                LET e == SkipWs(s, j + 1) IN
                IF At(s, e) = "}" THEN Got(Obj(<<>>), e + 1) ELSE ParseMembers(s, j + 1, <<>>)
          [] OTHER -> Fail

\* JSON.parse(raw): ok is FALSE where JSON.parse throws a SyntaxError
JsonParse(raw) ==
    LET r == ParseValue(raw, 1) IN
    IF r.ok /\ SkipWs(raw, r.i) = Len(raw) + 1 THEN r ELSE Fail

(***************************************************************************)
(* Finite maps from strings to strings: a Map<string, string>, or the      *)
(* entries of a Storage object.                                            *)
(***************************************************************************)
EmptyMap == <<>>

MapSet(m, k, raw) == [y \in (DOMAIN m) \cup {k} |-> IF y = k THEN raw ELSE m[y]]

MapDelete(m, k) == [y \in (DOMAIN m) \ {k} |-> m[y]]

\* Map.get(k) ?? null and Storage.getItem(k): the string, or null when absent
MapGet(m, k) ==
    IF k \in DOMAIN m THEN [present |-> TRUE, raw |-> m[k]]
    ELSE [present |-> FALSE, raw |-> <<>>]

(***************************************************************************)
(* StoreProvider's pure parts.                                             *)
(***************************************************************************)
StoreTypes == {"memory", "localStorage", "sessionStorage"}

WebKinds == {"localStorage", "sessionStorage"}

DefaultStoreType == "localStorage"

DefaultPrefix == <<"t", "e", "s", "t", "-", "a", "p", "p">>

ProbeKey == <<"_", "_", "w", "s", "_", "t", "e", "s", "t", "_", "_">>

ProbeValue == <<"1">>

\* an argument that may be left out (undefined)
Omitted == [given |-> FALSE, s |-> <<>>]
Given(s) == [given |-> TRUE, s |-> s]

RECURSIVE TrimStart(_)
TrimStart(s) == IF s # <<>> /\ IsWhite(Head(s)) THEN TrimStart(Tail(s)) ELSE s

RECURSIVE TrimEnd(_)
TrimEnd(s) ==
    IF s # <<>> /\ IsWhite(s[Len(s)]) THEN TrimEnd(SubSeq(s, 1, Len(s) - 1)) ELSE s

\* String.prototype.trim
Trim(s) == TrimEnd(TrimStart(s))

\* a constructor that stores the prefix as given
StoredPrefixAsGiven(s) == s

\* the prefix the constructor stores
StoredPrefix(s) == Trim(s)

\* a key derivation that drops the key
GetKeyPrefixOnly(prefix, key) == prefix

\* #getKey(key): !key holds of undefined and of the empty string
GetKey(prefix, key) ==
    IF ~key.given \/ key.s = <<>> THEN prefix
    ELSE IF prefix # <<>> THEN prefix \o <<":">> \o key.s
    ELSE key.s

\* a serializer that writes a string as its own text
SerializeStringsBare(v) == IF v.t = "str" THEN v.s ELSE Stringify(v)

\* #serialize(value)
Serialize(v) == Stringify(v)

\* #deserialize(raw): null for null, the parsed value, or the raw string when
\* JSON.parse throws
Deserialize(r) ==
    IF ~r.present THEN Null
    ELSE LET parsed == JsonParse(r.raw) IN
         IF parsed.ok THEN parsed.v ELSE Str(r.raw)

(***************************************************************************)
(* The environment: whether a global `window` exists, and the two Web      *)
(* Storage objects.  web[kind] is                                          *)
(*   access: what reading window[kind] does: "ok" gives the Storage        *)
(*           object, "undefined" gives undefined, "throws" raises a        *)
(*           SecurityError (storage blocked for the origin);               *)
(*   fail:   the Storage methods that throw at the moment;                 *)
(*   data:   the entries of the Storage object.                            *)
(* A provider is the object's private fields; currentStorage is            *)
(*   [kind |-> "map", name |-> "memory", map |-> its entries]  a Map,      *)
(*   [kind |-> "web", name |-> kind, map |-> EmptyMap]  window[kind],      *)
(*   [kind |-> "undefined", ..]  the value undefined.                      *)
(***************************************************************************)
VARIABLES
    hasWindow,  \* typeof window !== 'undefined'
    web,        \* the Web Storage objects, by kind
    prov,       \* the StoreProvider instances, by name
    hist,       \* per instance: what has been done to it (history, not program state)
    last        \* the last call made, its arguments and its outcome (history)

vars == <<hasWindow, web, prov, hist, last>>

Providers == {"A", "B"}

NewMap == [kind |-> "map", name |-> "memory", map |-> EmptyMap]
WebHandle(kind) == [kind |-> "web", name |-> kind, map |-> EmptyMap]
UndefinedHandle(kind) == [kind |-> "undefined", name |-> kind, map |-> EmptyMap]

\* the shape of the state
TypeOK ==
    /\ hasWindow \in BOOLEAN
    /\ \A kind \in WebKinds :
           /\ web[kind].access \in {"ok", "undefined", "throws"}
           /\ web[kind].fail \subseteq {"setItem", "removeItem"}
    /\ \A p \in Providers :
           /\ prov[p].live \in BOOLEAN
           /\ prov[p].storeType \in StoreTypes
           /\ prov[p].isServer \in BOOLEAN
           /\ prov[p].currentStorage.kind \in {"map", "web"}
           /\ prov[p].store \in {"map", "web"}
           /\ hist[p].probe \in {"none", "passed", "threw"}
    /\ last.op \in {"none", "construct", "setValue", "getValue", "removeValue", "fault"}
    /\ last.result \in {"ok", "throw"}
    /\ last.touched \subseteq WebKinds

\* STORAGE_FACTORIES[storeType](): the value, or the exception reading
\* window[storeType] raises
Factory(storeType, win, w) ==
    IF storeType = "memory" THEN [threw |-> FALSE, error |-> "", storage |-> NewMap]
    ELSE IF ~win THEN [threw |-> TRUE, error |-> "ReferenceError", storage |-> NewMap]
    ELSE CASE w[storeType].access = "throws" ->
                [threw |-> TRUE, error |-> "SecurityError", storage |-> NewMap]
           [] w[storeType].access = "undefined" ->
                [threw |-> FALSE, error |-> "", storage |-> UndefinedHandle(storeType)]
           [] OTHER ->
                [threw |-> FALSE, error |-> "", storage |-> WebHandle(storeType)]

\* a probe that does not remove its key
CanUseWebStorageNoRemove(storage, w) ==
    IF storage.kind # "web" THEN [ok |-> FALSE, data |-> w.data]
    ELSE IF "setItem" \in w.fail THEN [ok |-> FALSE, data |-> w.data]
    ELSE [ok |-> TRUE, data |-> MapSet(w.data, ProbeKey, ProbeValue)]

\* #canUseWebStorage(storage): setItem then removeItem of the probe key inside
\* try/catch; ok is the boolean returned, data the entries of the Storage
\* object afterwards (w is that object's state)
CanUseWebStorage(storage, w) ==
    IF storage.kind # "web" THEN [ok |-> FALSE, data |-> w.data]
    ELSE IF "setItem" \in w.fail THEN [ok |-> FALSE, data |-> w.data]
    ELSE LET written == MapSet(w.data, ProbeKey, ProbeValue) IN
         IF "removeItem" \in w.fail THEN [ok |-> FALSE, data |-> written]
         ELSE [ok |-> TRUE, data |-> MapDelete(written, ProbeKey)]

\* no server check
EffectiveStoreTypeAsRequested(storeType, isServer) == storeType

\* the store type #initStorage goes on with: memory on a server
EffectiveStoreType(storeType, isServer) ==
    IF isServer /\ storeType # "memory" THEN "memory" ELSE storeType

\* the keys of STORAGE_FACTORIES
HasFactory(storeType) == storeType \in {"memory", "localStorage", "sessionStorage"}

\* a fallback that replaces the store and keeps the store type
ProbeFallbackKeepsType(storeType, storage) ==
    [storeType |-> storeType, currentStorage |-> NewMap]

\* what #initStorage sets when the probe fails: storeType and currentStorage
ProbeFallback(storeType, storage) ==
    [storeType |-> "memory", currentStorage |-> NewMap]

\* #initStorage(): the fields it leaves (storeType, currentStorage), the state
\* of the Web Storage objects, which of them it touched, whether the probe ran
\* and threw, or the exception it raises
InitStorage(requested, isServer, win, w) ==
    LET storeType == EffectiveStoreType(requested, isServer)
        none == [threw |-> TRUE, error |-> "Error", storeType |-> storeType,
                 currentStorage |-> NewMap, web |-> w, touched |-> {},
                 probe |-> "none"]
    IN  IF ~HasFactory(storeType) THEN none
        ELSE LET made == Factory(storeType, win, w) IN
        IF made.threw
        THEN [none EXCEPT !.error = made.error, !.touched = {storeType}]
        ELSE IF storeType = "memory"
        THEN [none EXCEPT !.threw = FALSE, !.error = "",
                          !.currentStorage = made.storage]
        ELSE LET can == CanUseWebStorage(made.storage, w[storeType])
                 after == [w EXCEPT ![storeType].data = can.data]
                 fallback == ProbeFallback(storeType, made.storage)
             IN  IF can.ok
                 THEN [threw |-> FALSE, error |-> "", storeType |-> storeType,
                       currentStorage |-> made.storage, web |-> after,
                       touched |-> {storeType}, probe |-> "passed"]
                 ELSE [threw |-> FALSE, error |-> "",
                       storeType |-> fallback.storeType,
                       currentStorage |-> fallback.currentStorage, web |-> after,
                       touched |-> {storeType}, probe |-> "threw"]

\* #adaptStorage(): which of the two adapters is built
AdaptStorage(storeType) == IF storeType = "memory" THEN "map" ELSE "web"

\* the fields of an instance that does not exist
NoProvider ==
    [live |-> FALSE, storeType |-> "memory", prefix |-> <<>>, isServer |-> FALSE,
     currentStorage |-> NewMap, store |-> "map"]

\* the constructor's guards on its options
ValidStoreType(storeType) == storeType \in StoreTypes
ValidPrefix(prefix) == prefix.type = "string"

\* a constructor that checks its options after #initStorage has run
NewValidatesLast(storeTypeOpt, prefixOpt, win, w) ==
    LET storeType == IF storeTypeOpt = "undefined" THEN DefaultStoreType ELSE storeTypeOpt
        prefix == IF prefixOpt.type = "undefined"
                  THEN [type |-> "string", s |-> DefaultPrefix] ELSE prefixOpt
        isServer == ~win
        init == InitStorage(storeType, isServer, win, w)
        none == [threw |-> TRUE, error |-> "", object |-> NoProvider, web |-> init.web,
                 touched |-> init.touched, probe |-> init.probe, configured |-> prefix.s]
    IN  IF init.threw THEN [none EXCEPT !.error = init.error]
        ELSE IF ~ValidStoreType(storeType) THEN [none EXCEPT !.error = "Error"]
        ELSE IF ~ValidPrefix(prefix) THEN [none EXCEPT !.error = "TypeError"]
        ELSE [threw |-> FALSE, error |-> "",
              object |-> [live |-> TRUE, storeType |-> init.storeType,
                          prefix |-> StoredPrefix(prefix.s), isServer |-> isServer,
                          currentStorage |-> init.currentStorage,
                          store |-> AdaptStorage(init.storeType)],
              web |-> init.web, touched |-> init.touched, probe |-> init.probe,
                       configured |-> prefix.s]

\* new StoreProvider({storeType, prefix}): an option "undefined" takes its
\* default.  Gives the new object, or the exception raised.
New(storeTypeOpt, prefixOpt, win, w) ==
    LET storeType == IF storeTypeOpt = "undefined" THEN DefaultStoreType ELSE storeTypeOpt
        prefix == IF prefixOpt.type = "undefined"
                  THEN [type |-> "string", s |-> DefaultPrefix] ELSE prefixOpt
        none == [threw |-> TRUE, error |-> "", object |-> NoProvider, web |-> w,
                 touched |-> {}, probe |-> "none", configured |-> prefix.s]
    IN  IF ~ValidStoreType(storeType) THEN [none EXCEPT !.error = "Error"]
        ELSE IF ~ValidPrefix(prefix) THEN [none EXCEPT !.error = "TypeError"]
        ELSE LET isServer == ~win
                 init == InitStorage(storeType, isServer, win, w)
             IN  IF init.threw
                 THEN [none EXCEPT !.error = init.error, !.touched = init.touched]
                 ELSE [threw |-> FALSE, error |-> "",
                       object |-> [live |-> TRUE, storeType |-> init.storeType,
                                   prefix |-> StoredPrefix(prefix.s), isServer |-> isServer,
                                   currentStorage |-> init.currentStorage,
                                   store |-> AdaptStorage(init.storeType)],
                       web |-> init.web, touched |-> init.touched, probe |-> init.probe,
                       configured |-> prefix.s]

(***************************************************************************)
(* The adapter's three operations on instance o with the Web Storage       *)
(* objects in state w.  Each gives the instance and the storage afterwards,*)
(* what was read, which Web Storage objects were touched, and the          *)
(* exception raised if any.  An adapter built for the other kind of store  *)
(* calls a method the store does not have: a TypeError.                    *)
(***************************************************************************)
Outcome(o, w, threw, error, r, touched) ==
    [object |-> o, web |-> w, threw |-> threw, error |-> error, raw |-> r,
     touched |-> touched]

Absent == [present |-> FALSE, raw |-> <<>>]

Mismatch(o, w) ==
    Outcome(o, w, TRUE, "TypeError", Absent,
            IF o.currentStorage.kind = "map" THEN {} ELSE {o.currentStorage.name})

Matches(o) ==
    \/ o.store = "map" /\ o.currentStorage.kind = "map"
    \/ o.store = "web" /\ o.currentStorage.kind = "web"

\* store.getRaw(key)
GetRaw(o, w, key) ==
    IF ~Matches(o) THEN Mismatch(o, w)
    ELSE IF o.store = "map"
    THEN Outcome(o, w, FALSE, "", MapGet(o.currentStorage.map, key), {})
    ELSE Outcome(o, w, FALSE, "", MapGet(w[o.currentStorage.name].data, key),
                 {o.currentStorage.name})

\* a setRaw that swallows the store's exception and moves the instance to a Map
SetRawFallsBack(o, w, key, raw) ==
    IF o.store = "map" \/ o.currentStorage.kind # "web"
    THEN Outcome([o EXCEPT !.storeType = "memory", !.store = "map",
                           !.currentStorage = [NewMap EXCEPT !.map =
                               MapSet(IF o.currentStorage.kind = "map"
                                      THEN o.currentStorage.map ELSE EmptyMap, key, raw)]],
                 w, FALSE, "", Absent, {})
    ELSE LET name == o.currentStorage.name IN
         IF "setItem" \in w[name].fail
         THEN Outcome([o EXCEPT !.storeType = "memory", !.store = "map",
                                !.currentStorage = [NewMap EXCEPT !.map = key :> raw]],
                      w, FALSE, "", Absent, {name})
         ELSE Outcome(o, [w EXCEPT ![name].data = MapSet(@, key, raw)],
                      FALSE, "", Absent, {name})

\* store.setRaw(key, raw)
SetRaw(o, w, key, raw) ==
    IF ~Matches(o) THEN Mismatch(o, w)
    ELSE IF o.store = "map"
    THEN Outcome([o EXCEPT !.currentStorage.map = MapSet(@, key, raw)], w,
                 FALSE, "", Absent, {})
    ELSE LET name == o.currentStorage.name IN
         IF "setItem" \in w[name].fail
         THEN Outcome(o, w, TRUE, "QuotaExceededError", Absent, {name})
         ELSE Outcome(o, [w EXCEPT ![name].data = MapSet(@, key, raw)],
                      FALSE, "", Absent, {name})

\* store.remove(key)
Remove(o, w, key) ==
    IF ~Matches(o) THEN Mismatch(o, w)
    ELSE IF o.store = "map"
    THEN Outcome([o EXCEPT !.currentStorage.map = MapDelete(@, key)], w,
                 FALSE, "", Absent, {})
    ELSE LET name == o.currentStorage.name IN
         IF "removeItem" \in w[name].fail
         THEN Outcome(o, w, TRUE, "StorageError", Absent, {name})
         ELSE Outcome(o, [w EXCEPT ![name].data = MapDelete(@, key)],
                      FALSE, "", Absent, {name})

\* what getValue(key) on instance o returns now
GetValueOf(o, w, key) == Deserialize(GetRaw(o, w, GetKey(o.prefix, key)).raw)

(***************************************************************************)
(* The calls.                                                              *)
(***************************************************************************)
NoCall ==
    [op |-> "none", p |-> "A", storeType |-> "undefined",
     prefix |-> [type |-> "undefined", s |-> <<>>], key |-> Omitted, value |-> Null,
     result |-> "ok", error |-> "", ret |-> Null, touched |-> {}, probe |-> "none",
     skey |-> <<>>]

NoHist == [written |-> {}, probe |-> "none", requested |-> "undefined", configured |-> <<>>]

\* p = new StoreProvider({storeType: storeTypeOpt, prefix: prefixOpt})
Construct(p, storeTypeOpt, prefixOpt) ==
    /\ ~prov[p].live
    /\ LET r == New(storeTypeOpt, prefixOpt, hasWindow, web) IN
       /\ prov' = IF r.threw THEN prov ELSE [prov EXCEPT ![p] = r.object]
       /\ web' = r.web
       /\ hist' = IF r.threw THEN hist
                  ELSE [hist EXCEPT ![p] = [written |-> {}, probe |-> r.probe,
                                            requested |-> storeTypeOpt,
                                            configured |-> r.configured]]
       /\ last' = [NoCall EXCEPT !.op = "construct", !.p = p,
                      !.storeType = storeTypeOpt, !.prefix = prefixOpt,
                      !.result = IF r.threw THEN "throw" ELSE "ok",
                      !.error = r.error, !.touched = r.touched, !.probe = r.probe]
    /\ UNCHANGED hasWindow

\* p.setValue(key, value)
SetValue(p, key, value) ==
    /\ prov[p].live
    /\ LET storeKey == GetKey(prov[p].prefix, key)
           r == SetRaw(prov[p], web, storeKey, Serialize(value))
       IN  /\ prov' = [prov EXCEPT ![p] = r.object]
           /\ web' = r.web
           /\ hist' = IF r.threw THEN hist
                      ELSE [hist EXCEPT ![p].written = @ \cup {key}]
           /\ last' = [NoCall EXCEPT !.op = "setValue", !.p = p, !.key = key,
                          !.value = value, !.skey = storeKey,
                          !.result = IF r.threw THEN "throw" ELSE "ok",
                          !.error = r.error, !.touched = r.touched]
    /\ UNCHANGED hasWindow

\* p.getValue(key)
GetValue(p, key) ==
    /\ prov[p].live
    /\ LET storeKey == GetKey(prov[p].prefix, key)
           r == GetRaw(prov[p], web, storeKey)
       IN  last' = [NoCall EXCEPT !.op = "getValue", !.p = p, !.key = key,
                       !.skey = storeKey,
                       !.result = IF r.threw THEN "throw" ELSE "ok",
                       !.error = r.error, !.touched = r.touched,
                       !.ret = IF r.threw THEN Null ELSE Deserialize(r.raw)]
    /\ UNCHANGED <<hasWindow, web, prov, hist>>

\* p.removeValue(key)
RemoveValue(p, key) ==
    /\ prov[p].live
    /\ LET storeKey == GetKey(prov[p].prefix, key)
           r == Remove(prov[p], web, storeKey)
       IN  /\ prov' = [prov EXCEPT ![p] = r.object]
           /\ web' = r.web
           /\ hist' = IF r.threw THEN hist
                      ELSE [hist EXCEPT ![p].written = @ \ {key}]
           /\ last' = [NoCall EXCEPT !.op = "removeValue", !.p = p, !.key = key,
                          !.skey = storeKey,
                          !.result = IF r.threw THEN "throw" ELSE "ok",
                          !.error = r.error, !.touched = r.touched]
    /\ UNCHANGED hasWindow

\* the environment: a Web Storage object starts or stops rejecting calls
\* (quota reached, storage blocked or unblocked)
FailModes == {{}, {"setItem"}, {"removeItem"}}

StorageFault(kind, fail) ==
    /\ hasWindow
    /\ web[kind].access = "ok"
    /\ web[kind].fail # fail
    /\ web' = [web EXCEPT ![kind].fail = fail]
    /\ last' = [NoCall EXCEPT !.op = "fault"]
    /\ UNCHANGED <<hasWindow, prov, hist>>

(***************************************************************************)
(* Initial states and inputs.                                              *)
(***************************************************************************)
S1(c) == <<c>>
S2(c, d) == <<c, d>>

WebOk(fail, data) == [access |-> "ok", fail |-> fail, data |-> data]
WebUndefined == [access |-> "undefined", fail |-> {}, data |-> EmptyMap]
WebThrows == [access |-> "throws", fail |-> {}, data |-> EmptyMap]

\* what a Storage object may hold before any provider exists: nothing, an
\* entry under the probe's key, text that is not JSON under a key a provider
\* derives
OldData ==
    { EmptyMap,
      ProbeKey :> <<"o", "l", "d">>,
      <<"a", ":", "x">> :> <<"h", "i">> }

\* before the first call: no instance; on a server there is no window and so
\* no Web Storage object
InitOn(windows, webs) ==
    /\ hasWindow \in windows
    /\ web \in IF hasWindow THEN webs ELSE {[k \in WebKinds |-> WebUndefined]}
    /\ prov = [p \in Providers |-> NoProvider]
    /\ hist = [p \in Providers |-> NoHist]
    /\ last = NoCall

NextOn(ps, storeTypeOpts, prefixOpts, keys, values) ==
    \/ \E p \in ps, st \in storeTypeOpts, pf \in prefixOpts : Construct(p, st, pf)
    \/ \E p \in ps, k \in keys, v \in values : SetValue(p, k, v)
    \/ \E p \in ps, k \in keys : GetValue(p, k)
    \/ \E p \in ps, k \in keys : RemoveValue(p, k)

PrefixString(s) == [type |-> "string", s |-> s]
PrefixUndefined == [type |-> "undefined", s |-> <<>>]
PrefixNumber == [type |-> "number", s |-> <<>>]

(***************************************************************************)
(* Spec: one instance in every environment: server or browser, each Web    *)
(* Storage object usable, undefined, blocked, or rejecting calls, and       *)
(* starting or stopping to reject them later.                              *)
(***************************************************************************)
EnvWebStates ==
    {WebUndefined, WebThrows}
        \cup {WebOk(f, d) : f \in {{}, {"setItem"}, {"removeItem"}}, d \in OldData}

\* one Web Storage object in any of these states, the other usable and empty
EnvWebs ==
    { [k \in WebKinds |-> IF k = kind THEN w ELSE WebOk({}, EmptyMap)] :
        kind \in WebKinds, w \in EnvWebStates }

Init == InitOn(BOOLEAN, EnvWebs)

Next ==
    \/ NextOn({"A"},
           {"undefined", "memory", "localStorage", "sessionStorage", "cookie"},
           {PrefixUndefined, PrefixNumber, PrefixString(S1("a"))},
           {Omitted, Given(S1("x"))},
           {Num(1), Str(S1("1"))})
    \/ \E kind \in WebKinds, f \in FailModes : StorageFault(kind, f)

Spec == Init /\ [][Next]_vars

(***************************************************************************)
(* SpecKeys: one instance in a browser over a usable localStorage, or on   *)
(* its own Map, with prefixes and keys that exercise the key derivation:   *)
(* white space around the prefix, a colon inside it, the empty prefix, the *)
(* empty key and the omitted key.                                          *)
(***************************************************************************)
AllKeys == {Omitted, Given(<<>>), Given(S1("x")), Given(<<"b", ":", "x">>)}

KeyWebs ==
    { [k \in WebKinds |-> IF k = "localStorage" THEN WebOk({}, d) ELSE WebOk({}, EmptyMap)] :
        d \in {EmptyMap, <<"a", ":", "x">> :> <<"h", "i">>} }

InitKeys == InitOn({TRUE}, KeyWebs)

NextKeys ==
    NextOn({"A"},
           {"memory", "localStorage"},
           {PrefixUndefined, PrefixString(<<>>), PrefixString(S1("a")),
            PrefixString(<<" ", "a", "\n">>), PrefixString(<<"a", ":", "b">>)},
           AllKeys,
           {Num(1), Null})

SpecKeys == InitKeys /\ [][NextKeys]_vars

(***************************************************************************)
(* SpecIso: two instances in a browser, each over the same usable          *)
(* localStorage or on its own Map, with prefixes that differ as strings.   *)
(***************************************************************************)
IsoKeys == {Given(S1("x")), Given(<<"b", ":", "x">>)}

InitIso == InitOn({TRUE}, KeyWebs)

NextIso ==
    NextOn(Providers,
           {"memory", "localStorage"},
           {PrefixString(<<>>), PrefixString(S1("a")), PrefixString(<<"a", ":", "b">>)},
           IsoKeys,
           {Num(1)})

SpecIso == InitIso /\ [][NextIso]_vars

(***************************************************************************)
(* SpecRoundTrip: one instance and one key, in any environment and over    *)
(* any backend, with a universe of JSON values: null, booleans, integers,  *)
(* strings (quotes, backslashes, line feeds, digits and the text of JSON   *)
(* literals among them), arrays, objects and nestings of those.            *)
(***************************************************************************)
SeqsUpTo(S, n) == UNION {[1..m -> S] : m \in 0..n}

StringChars == {"a", "1", "\""}

Strings ==
    SeqsUpTo(StringChars, MaxStrLen)
        \cup { <<"\n">>, <<"\\">>, <<"\\", "\"">>, <<"\\", "n">>, <<" ", "1">>,
               <<"n", "u", "l", "l">>, <<"t", "r", "u", "e">>, <<"[", "1", "]">>,
               <<"{", "}">> }

Numbers == {0 - 12, 0 - 1, 0, 1, 10, 105}

Scalars == {Null, Bool(TRUE), Bool(FALSE)} \cup {Num(n) : n \in Numbers}
               \cup {Str(st) : st \in Strings}

Elements == {Num(1), Str(S1("a"))}

Arrays == {Arr(a) : a \in SeqsUpTo(Elements, MaxKids)}

ObjectKeys == {S1("a"), S1("1"), S1("\"")}

Objects ==
    {Obj(o) : o \in UNION {[D -> {Null, Str(S1("1"))}] :
                              D \in {D \in SUBSET ObjectKeys : Cardinality(D) <= MaxKids}}}

Nested ==
    { Arr(<<Arr(<<Num(1)>>), Obj(S1("a") :> Arr(<<>>))>>),
      Obj(S1("a") :> Obj(S1("b") :> Arr(<<Num(1), Null>>)) @@ S1("n") :> Num(1)) }

JsonValues == Scalars \cup Arrays \cup Objects \cup Nested

InitRoundTrip == InitOn(BOOLEAN, KeyWebs)

NextRoundTrip ==
    \/ NextOn({"A"},
              {"memory", "localStorage", "sessionStorage"},
              {PrefixString(S1("a"))},
              {Given(S1("x"))},
              JsonValues)
    \/ \E f \in {{}, {"setItem"}} : StorageFault("localStorage", f)

SpecRoundTrip == InitRoundTrip /\ [][NextRoundTrip]_vars

(***************************************************************************)
(* Properties.                                                             *)
(***************************************************************************)
\* the storeType a construction call asks for, its default filled in
RequestedType(call) ==
    IF call.storeType = "undefined" THEN DefaultStoreType ELSE call.storeType

\* a construction call with a supported storeType and a string prefix
ValidOptions(call) ==
    /\ RequestedType(call) \in {"memory", "localStorage", "sessionStorage"}
    /\ call.prefix.type \in {"string", "undefined"}

IsOperation(call) == call.op \in {"setValue", "getValue", "removeValue"}

\* C1: constructing with a supported storeType and a string prefix never
\* throws, in every environment: on a server or in a browser, with the Web
\* Storage object usable, rejecting the probe, undefined, or not obtainable
\* at all (reading it raises).
C1_ConstructionNeverThrows ==
    (last.op = "construct" /\ ValidOptions(last)) => last.result = "ok"

\* C2: an instance whose construction probe threw is backed by a fresh Map:
\* it is empty right after construction, every later setValue, getValue and
\* removeValue completes without touching a Web Storage object, and right
\* after setValue(k, v) a getValue(k) returns v.
C2_ProbeFailureFallsBackToMemory ==
    \A p \in Providers :
        (prov[p].live /\ hist[p].probe = "threw") =>
            /\ prov[p].storeType = "memory"
            /\ prov[p].currentStorage.kind = "map"
            /\ (last.op = "construct" /\ last.p = p) =>
                   prov[p].currentStorage.map = EmptyMap
            /\ (IsOperation(last) /\ last.p = p) =>
                   last.result = "ok" /\ last.touched = {}
            /\ (last.op = "setValue" /\ last.p = p) =>
                   GetValueOf(prov[p], web, last.key) = last.value

\* C2's case: a setValue on an instance that asked for a Web Storage object
\* whose probe threw
C2_Witness ==
    /\ last.op = "setValue"
    /\ prov[last.p].live
    /\ hist[last.p].probe = "threw"
    /\ hist[last.p].requested = "sessionStorage"

\* C3 as stated: after construction no setValue, getValue or removeValue
\* fails because of the backend, also when the Web Storage object starts
\* rejecting calls after having passed the probe.
C3_NoCallFails == IsOperation(last) => last.result = "ok"

\* the Storage method a call uses
MethodOf(op) ==
    CASE op = "setValue" -> "setItem"
      [] op = "removeValue" -> "removeItem"
      [] OTHER -> "getItem"

\* C3 as amended: the backend chosen at construction is kept for the life of
\* the instance, and a call throws exactly when the instance is backed by a
\* Web Storage object that rejects the call's method at that moment; on a
\* Map-backed instance no call throws.
C3_BackendKeptAndFailuresSurface ==
    [][ /\ \A p \in Providers :
              prov[p].live =>
                  /\ prov'[p].live
                  /\ prov'[p].storeType = prov[p].storeType
                  /\ prov'[p].store = prov[p].store
                  /\ prov'[p].currentStorage.kind = prov[p].currentStorage.kind
                  /\ prov'[p].currentStorage.name = prov[p].currentStorage.name
        /\ IsOperation(last') =>
              (last'.result = "throw" <=>
                  /\ prov'[last'.p].currentStorage.kind = "web"
                  /\ MethodOf(last'.op) \in web'[prov'[last'.p].currentStorage.name].fail)
      ]_vars

\* C3's case: a setValue that throws on an instance whose probe had passed
C3_Witness ==
    /\ last.op = "setValue"
    /\ last.result = "throw"
    /\ hist[last.p].probe = "passed"

\* C7: construction with an unsupported storeType throws an Error, and with a
\* prefix that is not a string a TypeError, in both cases before any backend
\* is made or probed: no Web Storage object is touched.
C7_InvalidOptionsThrowFirst ==
    last.op = "construct" =>
        /\ RequestedType(last) \notin {"memory", "localStorage", "sessionStorage"} =>
              /\ last.result = "throw"
              /\ last.error = "Error"
              /\ last.touched = {}
              /\ last.probe = "none"
        /\ (/\ RequestedType(last) \in {"memory", "localStorage", "sessionStorage"}
            /\ last.prefix.type = "number") =>
              /\ last.result = "throw"
              /\ last.error = "TypeError"
              /\ last.touched = {}
              /\ last.probe = "none"

\* C7's case: a construction with a supported storeType and a number as prefix,
\* in a browser whose Web Storage object holds entries
C7_Witness ==
    /\ last.op = "construct"
    /\ last.storeType = "localStorage"
    /\ last.prefix.type = "number"
    /\ hasWindow
    /\ web["localStorage"].access = "ok"
    /\ web["localStorage"].data # EmptyMap

\* C8: on a server, construction with any supported storeType gives an
\* instance backed by a Map: no Web Storage object is obtained or probed, and
\* every later call works on the instance's own Map only.
C8_ServerForcesMemory ==
    ~hasWindow =>
        /\ (last.op = "construct" /\ ValidOptions(last)) =>
               last.result = "ok" /\ prov[last.p].live
        /\ last.touched = {}
        /\ \A p \in Providers :
               prov[p].live =>
                   /\ prov[p].isServer
                   /\ prov[p].storeType = "memory"
                   /\ prov[p].currentStorage.kind = "map"
                   /\ prov[p].store = "map"
                   /\ hist[p].probe = "none"
                   /\ (IsOperation(last) /\ last.p = p) => last.result = "ok"

\* C8's case: on a server, a setValue on an instance that asked for localStorage
C8_Witness ==
    /\ ~hasWindow
    /\ last.op = "setValue"
    /\ prov[last.p].live
    /\ hist[last.p].requested = "localStorage"

\* C10 as stated: construction leaves the entries of every Web Storage
\* object as they were, whatever they were and however the probe went.
C10_ConstructionLeavesStore ==
    [][ last'.op = "construct" =>
            \A kind \in WebKinds : web'[kind].data = web[kind].data ]_vars

\* C10 as amended: construction changes no entry but the one under the
\* probe's key.  That entry is gone after a probe that passed, holds the
\* probe's value after a probe whose write was accepted and whose delete was
\* rejected, and is as it was otherwise (write rejected, no Storage object,
\* or a store that was not probed).
C10_ConstructionTouchesOnlyProbeKey ==
    [][ last'.op = "construct" =>
            \A kind \in WebKinds :
                LET before == web[kind].data
                    after == web'[kind].data
                    probed == kind \in last'.touched /\ last'.probe # "none"
                    wrote == /\ probed
                             /\ web[kind].access = "ok"
                             /\ "setItem" \notin web[kind].fail
                IN  /\ MapDelete(after, ProbeKey) = MapDelete(before, ProbeKey)
                    /\ (wrote /\ last'.probe = "passed") => ProbeKey \notin DOMAIN after
                    /\ (wrote /\ last'.probe = "threw") =>
                           MapGet(after, ProbeKey) = [present |-> TRUE, raw |-> ProbeValue]
                    /\ ~wrote => after = before ]_vars

\* C10's case: a probe has passed on a Storage object that held an entry
\* before, and still holds it
C10_Witness ==
    /\ last.op = "construct"
    /\ last.probe = "passed"
    /\ \E kind \in last.touched : <<"a", ":", "x">> \in DOMAIN web[kind].data

\* C5: two instances with different prefix strings over the same Web Storage
\* object never observe each other: a setValue or removeValue on one changes
\* the result of no getValue on the other.
C5_PrefixIsolation ==
    [][ \A a \in Providers, b \in Providers :
            (/\ a # b
             /\ prov[a].live /\ prov[b].live
             /\ prov[a].currentStorage.kind = "web"
             /\ prov[b].currentStorage.kind = "web"
             /\ prov[a].currentStorage.name = prov[b].currentStorage.name
             /\ hist[a].configured # hist[b].configured
             /\ last'.p = a
             /\ last'.op \in {"setValue", "removeValue"}) =>
                \A k \in IsoKeys :
                    GetValueOf(prov'[b], web', k) = GetValueOf(prov[b], web, k) ]_vars

\* C6 as stated: getValue(k) returns null whenever k has never been passed to
\* setValue on the instance or the last setValue or removeValue on k was a
\* removeValue, whatever was done with other keys, the empty key and the
\* omitted key included.
C6_MissLawAsStated ==
    \A p \in Providers :
        prov[p].live =>
            \A k \in AllKeys :
                k \notin hist[p].written => GetValueOf(prov[p], web, k) = Null

\* the empty key and the omitted key name one entry
SameEntry(k1, k2) == k1 = k2 \/ {k1, k2} \subseteq {Omitted, Given(<<>>)}

\* C6 as amended: on a Map-backed instance getValue(k) returns null whenever
\* neither k nor a key naming the same entry (the empty key and the omitted
\* key name one entry) has a setValue as its last setValue or removeValue;
\* calls on keys naming other entries never make getValue(k) non-null.
C6_MissLawOnMemory ==
    \A p \in Providers :
        (prov[p].live /\ prov[p].currentStorage.kind = "map") =>
            \A k \in AllKeys :
                (\A k2 \in AllKeys : SameEntry(k, k2) => k2 \notin hist[p].written)
                    => GetValueOf(prov[p], web, k) = Null

\* C6's case: a removeValue on a Map-backed instance that leaves entries under
\* other keys, the omitted key among them
C6_Witness ==
    /\ last.op = "removeValue"
    /\ last.key = Given(<<"x">>)
    /\ prov[last.p].currentStorage.kind = "map"
    /\ hist[last.p].written = {Omitted, Given(<<"b", ":", "x">>)}

\* C9 as stated: the storage key is the configured prefix p when no key is
\* given, p:k when a key (any string, the empty one included) is given and p
\* is not empty, and k when p is empty.
C9_KeyDerivationAsStated ==
    IsOperation(last) =>
        LET p == hist[last.p].configured
            k == last.key
        IN  last.skey = IF ~k.given THEN p
                        ELSE IF p # <<>> THEN p \o <<":">> \o k.s
                        ELSE k.s

\* C9 as amended: with p the configured prefix without its leading and
\* trailing white space, the storage key is p when the key is omitted or is
\* the empty string, p:k when the key is a non-empty string and p is not
\* empty, and k when the key is a non-empty string and p is empty.
C9_KeyDerivation ==
    IsOperation(last) =>
        LET p == TrimEnd(TrimStart(hist[last.p].configured))
            k == last.key
        IN  last.skey = IF ~k.given \/ k.s = <<>> THEN p
                        ELSE IF p # <<>> THEN p \o <<":">> \o k.s
                        ELSE k.s

\* C9's case: a call with the empty key on an instance whose prefix was given
\* with white space around it
C9_Witness ==
    /\ IsOperation(last)
    /\ last.key = Given(<<>>)
    /\ hist[last.p].configured = <<" ", "a", "\n">>
    /\ last.skey = <<"a">>

\* C4: on every kind of backend, right after a setValue(k, v) that returned,
\* getValue(k) returns a value equal to v, for every JSON value v: null,
\* booleans, numbers, strings, arrays, objects and nestings of those.
C4_RoundTrip ==
    (last.op = "setValue" /\ last.result = "ok") =>
        GetValueOf(prov[last.p], web, last.key) = last.value

\* C4's case: a nested object has been written through to a Web Storage object
C4_Witness ==
    /\ last.op = "setValue"
    /\ last.result = "ok"
    /\ last.value = Obj(S1("a") :> Obj(S1("b") :> Arr(<<Num(1), Null>>)) @@ S1("n") :> Num(1))
    /\ prov[last.p].currentStorage.kind = "web"
    /\ MapGet(web[prov[last.p].currentStorage.name].data, last.skey).present
====
